---------------------------- MODULE Spec2Model ----------------------------
(***************************************************************************)
(* zerofree (multithreaded): the sweep of src/zerofree.c as a state        *)
(* machine.  One coordinator (main, lines 236-267) hands block numbers to  *)
(* max_threads workers (worker_thread, lines 44-119) through the single    *)
(* slot job_block_num/do_job, guarded by one pthread mutex and three       *)
(* condition variables.  Every C statement that touches shared state is    *)
(* one action; a read-modify-write of a shared counter (x++, x--) is a     *)
(* load into the worker's register followed by a store; statements that    *)
(* touch only locals are folded into the shared access before them.        *)
(*                                                                         *)
(* pthread_mutex_unlock by a thread that does not hold the mutex and       *)
(* pthread_cond_wait with a mutex the caller does not hold are undefined;  *)
(* the model lets them either leave the mutex alone (an error-checking     *)
(* build) or release it from under its holder (glibc's default mutex).     *)
(* job_done is never pthread_cond_init'ed (lines 218-220); it has static   *)
(* storage, and an all-zero pthread_cond_t is a valid condition variable   *)
(* on the builds this program targets, so it is modelled as initialised.   *)
(***************************************************************************)
EXTENDS Integers, Sequences, FiniteSets, TLC

\* ---- bounds of the model ----
MaxThreads == 2
MaxBlocks == 2

\* fs->blocksize: bytes per block
BlockSize == 2

\* byte values a block may hold and -f may name (0..0xFF in the program)
Bytes == {0, 255}

VARIABLES
    \* configuration, fixed after start-up
    max_threads, dryrun, verbose, fillval, fs,
    \* which run of the program on this volume the state belongs to (1 or 2)
    sweep,
    \* the volume: block number -> bytes, and its content at sweep start
    disk, disk0,
    \* shared state (lines 26-39)
    mutex, quit, do_job, job_block_num, runningThreads,
    freeBlocks, modifiedBlocks, percent, old_percent,
    \* worker_thread locals, per worker
    pc, blk, reg,
    \* main locals
    mpc, mblk, mi, exit_code,
    \* instrumentation (history): handoff log, queried blocks, I/O calls
    accepted, queried, reads, writes, io_error

cfgvars == <<max_threads, dryrun, verbose, fillval, fs, disk0, sweep>>
shvars == <<mutex, quit, do_job, job_block_num, runningThreads,
            freeBlocks, modifiedBlocks, percent, old_percent>>
wvars == <<pc, blk, reg>>
mvars == <<mpc, mblk, mi, exit_code>>
hvars == <<accepted, queried, reads, writes, io_error>>
vars == <<cfgvars, disk, shvars, wvars, mvars, hvars>>

\* the mutex is free, or held by the coordinator (Main) or a worker 1..max_threads
Free == -1
Main == 0
Workers == 1 .. max_threads

\* the thread slots of the model; slot w is a worker when w <= max_threads
ThreadIds == 1 .. (MaxThreads + 1)

\* the blocks of the sweep: [s_first_data_block, s_blocks_count)
Range == fs.s_first_data_block .. (fs.s_blocks_count - 1)

\* mutant of empty: the buffer is zeroed whatever fillval is
Mutant_empty_zeroed == [i \in 1 .. BlockSize |-> 0]

\* the buffer `empty` of line 201-207: blocksize bytes of fillval
empty == [i \in 1 .. BlockSize |-> fillval]

\* lines 88-92: the index (0-based) at which the compare loop stops
RECURSIVE FirstDiff(_, _)
FirstDiff(b, i) ==
    IF i = BlockSize THEN i
    ELSE IF b[i + 1] # fillval THEN i
    ELSE FirstDiff(b, i + 1)

\* mutant of AllFill: the compare loop looks at the first byte only
Mutant_AllFill_first_byte(b) == b[1] = fillval

\* line 94: i == fs->blocksize, the block is already all fillval
AllFill(b) == FirstDiff(b, 0) = BlockSize

\* ext2fs_test_block_bitmap (line 65): non-zero when the block is in use
InUse(b) == fs.block_map[b]

FreeInRange == {b \in Range : ~InUse(b)}

\* lines 71-72 and 75: (int)(percent*10), kept as an integer number of tenths
PercentTenths(n) == (1000 * n) \div fs.s_free_blocks_count

\* what an in-use block holds: file data, never fillval throughout
Data == [i \in 1 .. BlockSize |-> CHOOSE v \in Bytes : v # fillval]

\* the state main has built when it enters the loop of line 236: the workers
\* created (line 222) and not yet run, the counters reset (lines 231-233)
Start ==
    /\ disk0 = disk
    /\ sweep = 1
    /\ mutex = Free
    /\ quit = 0
    /\ do_job = 0
    /\ job_block_num = 0
    /\ runningThreads = 0
    /\ freeBlocks = 0
    /\ modifiedBlocks = 0
    /\ percent = 0
    /\ old_percent = -1
    /\ pc = [w \in ThreadIds |-> IF w \in Workers THEN "L50" ELSE "none"]
    /\ blk = [w \in ThreadIds |-> 0]
    /\ reg = [w \in ThreadIds |-> 0]
    /\ mpc = "M236"
    /\ mblk = fs.s_first_data_block
    /\ mi = 0
    /\ exit_code = -1
    /\ accepted = <<>>
    /\ queried = {}
    /\ reads = [b \in Range |-> 0]
    /\ writes = [b \in Range |-> 0]
    /\ io_error = FALSE

\* the volume: a first data block of 0 or 1, up to MaxBlocks blocks, any
\* bitmap, any bytes in the free blocks
Volume ==
    /\ \E first \in {0, 1} :
       \E count \in first .. MaxBlocks :
       \E bm \in [first .. (count - 1) -> BOOLEAN] :
          fs = [s_first_data_block |-> first,
                s_blocks_count |-> count,
                s_free_blocks_count |->
                    Cardinality({b \in first .. (count - 1) : ~bm[b]}),
                block_map |-> bm]
    /\ disk \in [Range -> [1 .. BlockSize -> Bytes]]
    /\ \A b \in Range : InUse(b) => disk[b] = Data

\* the command line (lines 133-171): -t max_threads, -n, -v, -f fillval
Init ==
    /\ max_threads \in 1 .. MaxThreads
    /\ dryrun \in BOOLEAN
    /\ verbose \in BOOLEAN
    /\ fillval \in Bytes
    /\ Volume
    /\ Start


\* ---- pthread primitives ----

\* pthread_mutex_lock returns to t once the mutex is free
MutexLock(t) == mutex = Free /\ mutex' = t

\* pthread_mutex_unlock by t: releases t's mutex; by a thread that does not
\* hold it the call is undefined: nothing happens, or the mutex is released
UnlockOutcomes(t) == IF mutex = t THEN {Free} ELSE {mutex, Free}

MutexUnlock(t) == mutex' \in UnlockOutcomes(t)

Goto(w, l) == pc' = [pc EXCEPT ![w] = l]

\* workers blocked in pthread_cond_wait(&job_enqueued) (line 55)
EnqueuedWaiters == {w \in Workers : pc[w] = "L55_wait"}

\* pthread_cond_signal(&job_enqueued): wakes one waiter, if there is one
SignalEnqueued ==
    IF EnqueuedWaiters = {} THEN pc' = pc
    ELSE \E w \in EnqueuedWaiters : pc' = [pc EXCEPT ![w] = "L55_relock"]

\* pthread_cond_broadcast(&job_enqueued): wakes every waiter
BroadcastEnqueued ==
    pc' = [w \in ThreadIds |-> IF pc[w] = "L55_wait" THEN "L55_relock" ELSE pc[w]]

\* pthread_cond_signal(&job_accepted) / (&job_done): only main ever waits
SignalMain(waiting, woken) ==
    mpc' = IF mpc = waiting THEN woken ELSE mpc

\* ---- worker_thread (lines 44-119), w a worker ----

\* line 50: pthread_mutex_lock(&mutex)
worker_L50_lock(w) ==
    /\ pc[w] = "L50"
    /\ MutexLock(w)
    /\ Goto(w, "L54")
    /\ UNCHANGED <<cfgvars, disk, quit, do_job, job_block_num, runningThreads,
                   freeBlocks, modifiedBlocks, percent, old_percent,
                   blk, reg, mvars, hvars>>

\* line 54: while (!do_job)
worker_L54_test_do_job(w) ==
    /\ pc[w] = "L54"
    /\ Goto(w, IF do_job = 0 THEN "L55" ELSE "L56")
    /\ UNCHANGED <<cfgvars, disk, shvars, blk, reg, mvars, hvars>>

\* line 55: pthread_cond_wait(&job_enqueued, &mutex): release and block
worker_L55_cond_wait(w) ==
    /\ pc[w] = "L55"
    /\ MutexUnlock(w)
    /\ Goto(w, "L55_wait")
    /\ UNCHANGED <<cfgvars, disk, quit, do_job, job_block_num, runningThreads,
                   freeBlocks, modifiedBlocks, percent, old_percent,
                   blk, reg, mvars, hvars>>

\* line 55: a wake-up with no signal, which pthread_cond_wait allows
worker_L55_spurious_wakeup(w) ==
    /\ pc[w] = "L55_wait"
    /\ Goto(w, "L55_relock")
    /\ UNCHANGED <<cfgvars, disk, shvars, blk, reg, mvars, hvars>>

\* line 55: pthread_cond_wait returns holding the mutex again
worker_L55_relock(w) ==
    /\ pc[w] = "L55_relock"
    /\ MutexLock(w)
    /\ Goto(w, "L54")
    /\ UNCHANGED <<cfgvars, disk, quit, do_job, job_block_num, runningThreads,
                   freeBlocks, modifiedBlocks, percent, old_percent,
                   blk, reg, mvars, hvars>>

\* lines 56-57: if (quit) break;  (break leaves the loop at label finish)
worker_L56_test_quit(w) ==
    /\ pc[w] = "L56"
    /\ Goto(w, IF quit # 0 THEN "L116" ELSE "L58")
    /\ UNCHANGED <<cfgvars, disk, shvars, blk, reg, mvars, hvars>>

\* line 58: int blk = job_block_num
worker_L58_claim(w) ==
    /\ pc[w] = "L58"
    /\ blk' = [blk EXCEPT ![w] = job_block_num]
    /\ accepted' = Append(accepted, job_block_num)
    /\ Goto(w, "L59")
    /\ UNCHANGED <<cfgvars, disk, shvars, reg, mvars,
                   queried, reads, writes, io_error>>

\* line 59: runningThreads++ (load)
worker_L59_load(w) ==
    /\ pc[w] = "L59"
    /\ reg' = [reg EXCEPT ![w] = runningThreads]
    /\ Goto(w, "L59_store")
    /\ UNCHANGED <<cfgvars, disk, shvars, blk, mvars, hvars>>

\* line 59: runningThreads++ (store)
worker_L59_store(w) ==
    /\ pc[w] = "L59_store"
    /\ runningThreads' = reg[w] + 1
    /\ reg' = [reg EXCEPT ![w] = 0]
    /\ Goto(w, "L60")
    /\ UNCHANGED <<cfgvars, disk, mutex, quit, do_job, job_block_num,
                   freeBlocks, modifiedBlocks, percent, old_percent,
                   blk, mvars, hvars>>

\* line 60: do_job = 0
worker_L60_clear_do_job(w) ==
    /\ pc[w] = "L60"
    /\ do_job' = 0
    /\ Goto(w, "L61")
    /\ UNCHANGED <<cfgvars, disk, mutex, quit, job_block_num, runningThreads,
                   freeBlocks, modifiedBlocks, percent, old_percent,
                   blk, reg, mvars, hvars>>

\* line 61: pthread_cond_signal(&job_accepted)
worker_L61_signal_accepted(w) ==
    /\ pc[w] = "L61"
    /\ SignalMain("M244_wait", "M244_relock")
    /\ Goto(w, "L62")
    /\ UNCHANGED <<cfgvars, disk, shvars, blk, reg, mblk, mi, exit_code,
                   hvars>>

\* line 62: pthread_mutex_unlock(&mutex)
worker_L62_unlock(w) ==
    /\ pc[w] = "L62"
    /\ MutexUnlock(w)
    /\ Goto(w, "L65")
    /\ UNCHANGED <<cfgvars, disk, quit, do_job, job_block_num, runningThreads,
                   freeBlocks, modifiedBlocks, percent, old_percent,
                   blk, reg, mvars, hvars>>

\* mutant of worker_L65_test_bitmap: the bitmap test negated
Mutant_L65_test_negated(w) ==
    /\ pc[w] = "L65"
    /\ queried' = queried \cup {blk[w]}
    /\ Goto(w, IF ~InUse(blk[w]) THEN "L110" ELSE "L69")
    /\ UNCHANGED <<cfgvars, disk, shvars, blk, reg, mvars,
                   accepted, reads, writes, io_error>>

\* lines 65-67: if (ext2fs_test_block_bitmap(fs->block_map, blk)) goto again
worker_L65_test_bitmap(w) ==
    /\ pc[w] = "L65"
    /\ queried' = queried \cup {blk[w]}
    /\ Goto(w, IF InUse(blk[w]) THEN "L110" ELSE "L69")
    /\ UNCHANGED <<cfgvars, disk, shvars, blk, reg, mvars,
                   accepted, reads, writes, io_error>>

\* line 69: pthread_mutex_lock(&mutex)
worker_L69_lock(w) ==
    /\ pc[w] = "L69"
    /\ MutexLock(w)
    /\ Goto(w, "L70")
    /\ UNCHANGED <<cfgvars, disk, quit, do_job, job_block_num, runningThreads,
                   freeBlocks, modifiedBlocks, percent, old_percent,
                   blk, reg, mvars, hvars>>

\* line 70: ++freeBlocks (load)
worker_L70_load(w) ==
    /\ pc[w] = "L70"
    /\ reg' = [reg EXCEPT ![w] = freeBlocks]
    /\ Goto(w, "L70_store")
    /\ UNCHANGED <<cfgvars, disk, shvars, blk, mvars, hvars>>

\* line 70: ++freeBlocks (store)
worker_L70_store(w) ==
    /\ pc[w] = "L70_store"
    /\ freeBlocks' = reg[w] + 1
    /\ reg' = [reg EXCEPT ![w] = 0]
    /\ Goto(w, "L71")
    /\ UNCHANGED <<cfgvars, disk, mutex, quit, do_job, job_block_num,
                   runningThreads, modifiedBlocks, percent, old_percent,
                   blk, mvars, hvars>>

\* lines 71-72: percent = 100.0 * freeBlocks / s_free_blocks_count
worker_L71_percent(w) ==
    /\ pc[w] = "L71"
    /\ percent' = PercentTenths(freeBlocks)
    /\ Goto(w, "L73")
    /\ UNCHANGED <<cfgvars, disk, mutex, quit, do_job, job_block_num,
                   runningThreads, freeBlocks, modifiedBlocks, old_percent,
                   blk, reg, mvars, hvars>>

\* mutant of worker_L73_unlock: the mutex is kept
Mutant_L73_keeps_mutex(w) ==
    /\ pc[w] = "L73"
    /\ Goto(w, "L75")
    /\ UNCHANGED <<cfgvars, disk, shvars, blk, reg, mvars, hvars>>

\* line 73: pthread_mutex_unlock(&mutex)
worker_L73_unlock(w) ==
    /\ pc[w] = "L73"
    /\ MutexUnlock(w)
    /\ Goto(w, "L75")
    /\ UNCHANGED <<cfgvars, disk, quit, do_job, job_block_num, runningThreads,
                   freeBlocks, modifiedBlocks, percent, old_percent,
                   blk, reg, mvars, hvars>>

\* line 75: if (verbose && (int)(percent*10) != old_percent), read unlocked
worker_L75_test_percent(w) ==
    /\ pc[w] = "L75"
    /\ Goto(w, IF verbose /\ percent # old_percent THEN "L76" ELSE "L82")
    /\ UNCHANGED <<cfgvars, disk, shvars, blk, reg, mvars, hvars>>

\* line 76: pthread_mutex_lock(&mutex)
worker_L76_lock(w) ==
    /\ pc[w] = "L76"
    /\ MutexLock(w)
    /\ Goto(w, "L78")
    /\ UNCHANGED <<cfgvars, disk, quit, do_job, job_block_num, runningThreads,
                   freeBlocks, modifiedBlocks, percent, old_percent,
                   blk, reg, mvars, hvars>>

\* lines 77-78: fprintf(stderr, percent); pthread_mutex_unlock(&mutex)
worker_L78_unlock(w) ==
    /\ pc[w] = "L78"
    /\ MutexUnlock(w)
    /\ Goto(w, "L79")
    /\ UNCHANGED <<cfgvars, disk, quit, do_job, job_block_num, runningThreads,
                   freeBlocks, modifiedBlocks, percent, old_percent,
                   blk, reg, mvars, hvars>>

\* line 79: old_percent = (int)(percent*10), unlocked
worker_L79_old_percent(w) ==
    /\ pc[w] = "L79"
    /\ old_percent' = percent
    /\ Goto(w, "L82")
    /\ UNCHANGED <<cfgvars, disk, mutex, quit, do_job, job_block_num,
                   runningThreads, freeBlocks, modifiedBlocks, percent,
                   blk, reg, mvars, hvars>>

\* lines 82-96: ret = io_channel_read_blk(fs->io, blk, 1, buf), ret == 0;
\* compare every byte of buf with fillval; all equal: goto again
worker_L82_read_compare(w) ==
    /\ pc[w] = "L82"
    /\ reads' = [reads EXCEPT ![blk[w]] = @ + 1]
    /\ Goto(w, IF AllFill(disk[blk[w]]) THEN "L110" ELSE "L98")
    /\ UNCHANGED <<cfgvars, disk, shvars, blk, reg, mvars,
                   accepted, queried, writes, io_error>>

\* lines 82-86: the read fails: "error while reading block", goto finish
worker_L82_read_error(w) ==
    /\ pc[w] = "L82"
    /\ reads' = [reads EXCEPT ![blk[w]] = @ + 1]
    /\ io_error' = TRUE
    /\ Goto(w, "L116")
    /\ UNCHANGED <<cfgvars, disk, shvars, blk, reg, mvars,
                   accepted, queried, writes>>

\* line 98: pthread_mutex_lock(&mutex)
worker_L98_lock(w) ==
    /\ pc[w] = "L98"
    /\ MutexLock(w)
    /\ Goto(w, "L99")
    /\ UNCHANGED <<cfgvars, disk, quit, do_job, job_block_num, runningThreads,
                   freeBlocks, modifiedBlocks, percent, old_percent,
                   blk, reg, mvars, hvars>>

\* line 99: ++modifiedBlocks (load)
worker_L99_load(w) ==
    /\ pc[w] = "L99"
    /\ reg' = [reg EXCEPT ![w] = modifiedBlocks]
    /\ Goto(w, "L99_store")
    /\ UNCHANGED <<cfgvars, disk, shvars, blk, mvars, hvars>>

\* mutant of worker_L99_store: the incremented value is not stored
Mutant_L99_store_lost(w) ==
    /\ pc[w] = "L99_store"
    /\ modifiedBlocks' = reg[w]
    /\ reg' = [reg EXCEPT ![w] = 0]
    /\ Goto(w, "L100")
    /\ UNCHANGED <<cfgvars, disk, mutex, quit, do_job, job_block_num,
                   runningThreads, freeBlocks, percent, old_percent,
                   blk, mvars, hvars>>

\* line 99: ++modifiedBlocks (store)
worker_L99_store(w) ==
    /\ pc[w] = "L99_store"
    /\ modifiedBlocks' = reg[w] + 1
    /\ reg' = [reg EXCEPT ![w] = 0]
    /\ Goto(w, "L100")
    /\ UNCHANGED <<cfgvars, disk, mutex, quit, do_job, job_block_num,
                   runningThreads, freeBlocks, percent, old_percent,
                   blk, mvars, hvars>>

\* mutant of worker_L100_unlock: dryrun is not tested
Mutant_L100_ignores_dryrun(w) ==
    /\ pc[w] = "L100"
    /\ MutexUnlock(w)
    /\ Goto(w, "L103")
    /\ UNCHANGED <<cfgvars, disk, quit, do_job, job_block_num, runningThreads,
                   freeBlocks, modifiedBlocks, percent, old_percent,
                   blk, reg, mvars, hvars>>

\* lines 100-102: pthread_mutex_unlock(&mutex); if (!dryrun)
worker_L100_unlock(w) ==
    /\ pc[w] = "L100"
    /\ MutexUnlock(w)
    /\ Goto(w, IF dryrun THEN "L110" ELSE "L103")
    /\ UNCHANGED <<cfgvars, disk, quit, do_job, job_block_num, runningThreads,
                   freeBlocks, modifiedBlocks, percent, old_percent,
                   blk, reg, mvars, hvars>>

\* lines 103-104: ret = io_channel_write_blk(fs->io, blk, 1, empty), ret == 0
worker_L103_write(w) ==
    /\ pc[w] = "L103"
    /\ disk' = [disk EXCEPT ![blk[w]] = empty]
    /\ writes' = [writes EXCEPT ![blk[w]] = @ + 1]
    /\ Goto(w, "L110")
    /\ UNCHANGED <<cfgvars, shvars, blk, reg, mvars,
                   accepted, queried, reads, io_error>>

\* lines 103-107: the write fails: "error while writing block", goto finish
worker_L103_write_error(w) ==
    /\ pc[w] = "L103"
    /\ writes' = [writes EXCEPT ![blk[w]] = @ + 1]
    /\ io_error' = TRUE
    /\ Goto(w, "L116")
    /\ UNCHANGED <<cfgvars, disk, shvars, blk, reg, mvars,
                   accepted, queried, reads>>

\* lines 109-110: again: pthread_mutex_lock(&mutex)
worker_L110_lock(w) ==
    /\ pc[w] = "L110"
    /\ MutexLock(w)
    /\ Goto(w, "L111")
    /\ UNCHANGED <<cfgvars, disk, quit, do_job, job_block_num, runningThreads,
                   freeBlocks, modifiedBlocks, percent, old_percent,
                   blk, reg, mvars, hvars>>

\* line 111: runningThreads-- (load)
worker_L111_load(w) ==
    /\ pc[w] = "L111"
    /\ reg' = [reg EXCEPT ![w] = runningThreads]
    /\ Goto(w, "L111_store")
    /\ UNCHANGED <<cfgvars, disk, shvars, blk, mvars, hvars>>

\* line 111: runningThreads-- (store)
worker_L111_store(w) ==
    /\ pc[w] = "L111_store"
    /\ runningThreads' = reg[w] - 1
    /\ reg' = [reg EXCEPT ![w] = 0]
    /\ Goto(w, "L112")
    /\ UNCHANGED <<cfgvars, disk, mutex, quit, do_job, job_block_num,
                   freeBlocks, modifiedBlocks, percent, old_percent,
                   blk, mvars, hvars>>

\* lines 112-113: pthread_cond_signal(&job_done); back to the top of the loop
worker_L112_signal_done(w) ==
    /\ pc[w] = "L112"
    /\ SignalMain("M239_wait", "M239_relock")
    /\ Goto(w, "L54")
    /\ UNCHANGED <<cfgvars, disk, shvars, blk, reg, mblk, mi, exit_code,
                   hvars>>

\* lines 115-116: finish: runningThreads-- (load)
worker_L116_load(w) ==
    /\ pc[w] = "L116"
    /\ reg' = [reg EXCEPT ![w] = runningThreads]
    /\ Goto(w, "L116_store")
    /\ UNCHANGED <<cfgvars, disk, shvars, blk, mvars, hvars>>

\* line 116: runningThreads-- (store)
worker_L116_store(w) ==
    /\ pc[w] = "L116_store"
    /\ runningThreads' = reg[w] - 1
    /\ reg' = [reg EXCEPT ![w] = 0]
    /\ Goto(w, "L117")
    /\ UNCHANGED <<cfgvars, disk, mutex, quit, do_job, job_block_num,
                   freeBlocks, modifiedBlocks, percent, old_percent,
                   blk, mvars, hvars>>

\* lines 117-118: pthread_mutex_unlock(&mutex); return NULL
worker_L117_unlock_return(w) ==
    /\ pc[w] = "L117"
    /\ MutexUnlock(w)
    /\ Goto(w, "exited")
    /\ UNCHANGED <<cfgvars, disk, quit, do_job, job_block_num, runningThreads,
                   freeBlocks, modifiedBlocks, percent, old_percent,
                   blk, reg, mvars, hvars>>

\* ---- main, the coordinator (lines 236-267) ----

\* line 236: for (blk = s_first_data_block; blk < s_blocks_count; blk++)
main_L236_for_test ==
    /\ mpc = "M236"
    /\ mpc' = IF mblk < fs.s_blocks_count THEN "M237" ELSE "M247"
    /\ UNCHANGED <<cfgvars, disk, shvars, wvars, mblk, mi, exit_code, hvars>>

\* line 237: pthread_mutex_lock(&mutex)
main_L237_lock ==
    /\ mpc = "M237"
    /\ MutexLock(Main)
    /\ mpc' = "M238"
    /\ UNCHANGED <<cfgvars, disk, quit, do_job, job_block_num, runningThreads,
                   freeBlocks, modifiedBlocks, percent, old_percent,
                   wvars, mblk, mi, exit_code, hvars>>

\* mutant of main_L238_test_running: the limit is tested with > instead of >=
Mutant_L238_one_too_many ==
    /\ mpc = "M238"
    /\ mpc' = IF runningThreads > max_threads THEN "M239" ELSE "M240"
    /\ UNCHANGED <<cfgvars, disk, shvars, wvars, mblk, mi, exit_code, hvars>>

\* line 238: while (runningThreads >= max_threads)
main_L238_test_running ==
    /\ mpc = "M238"
    /\ mpc' = IF runningThreads >= max_threads THEN "M239" ELSE "M240"
    /\ UNCHANGED <<cfgvars, disk, shvars, wvars, mblk, mi, exit_code, hvars>>

\* line 239: pthread_cond_wait(&job_done, &mutex): release and block
main_L239_cond_wait ==
    /\ mpc = "M239"
    /\ MutexUnlock(Main)
    /\ mpc' = "M239_wait"
    /\ UNCHANGED <<cfgvars, disk, quit, do_job, job_block_num, runningThreads,
                   freeBlocks, modifiedBlocks, percent, old_percent,
                   wvars, mblk, mi, exit_code, hvars>>

\* line 239: a wake-up with no signal
main_L239_spurious_wakeup ==
    /\ mpc = "M239_wait"
    /\ mpc' = "M239_relock"
    /\ UNCHANGED <<cfgvars, disk, shvars, wvars, mblk, mi, exit_code, hvars>>

\* line 239: pthread_cond_wait returns holding the mutex again
main_L239_relock ==
    /\ mpc = "M239_relock"
    /\ MutexLock(Main)
    /\ mpc' = "M238"
    /\ UNCHANGED <<cfgvars, disk, quit, do_job, job_block_num, runningThreads,
                   freeBlocks, modifiedBlocks, percent, old_percent,
                   wvars, mblk, mi, exit_code, hvars>>

\* line 240: job_block_num = blk
main_L240_publish_block ==
    /\ mpc = "M240"
    /\ job_block_num' = mblk
    /\ mpc' = "M241"
    /\ UNCHANGED <<cfgvars, disk, mutex, quit, do_job, runningThreads,
                   freeBlocks, modifiedBlocks, percent, old_percent,
                   wvars, mblk, mi, exit_code, hvars>>

\* line 241: do_job = 1
main_L241_set_do_job ==
    /\ mpc = "M241"
    /\ do_job' = 1
    /\ mpc' = "M242"
    /\ UNCHANGED <<cfgvars, disk, mutex, quit, job_block_num, runningThreads,
                   freeBlocks, modifiedBlocks, percent, old_percent,
                   wvars, mblk, mi, exit_code, hvars>>

\* line 242: pthread_cond_signal(&job_enqueued)
main_L242_signal_enqueued ==
    /\ mpc = "M242"
    /\ SignalEnqueued
    /\ mpc' = "M243"
    /\ UNCHANGED <<cfgvars, disk, shvars, blk, reg, mblk, mi, exit_code,
                   hvars>>

\* line 243: while (do_job)
main_L243_test_do_job ==
    /\ mpc = "M243"
    /\ mpc' = IF do_job # 0 THEN "M244" ELSE "M245"
    /\ UNCHANGED <<cfgvars, disk, shvars, wvars, mblk, mi, exit_code, hvars>>

\* line 244: pthread_cond_wait(&job_accepted, &mutex): release and block
main_L244_cond_wait ==
    /\ mpc = "M244"
    /\ MutexUnlock(Main)
    /\ mpc' = "M244_wait"
    /\ UNCHANGED <<cfgvars, disk, quit, do_job, job_block_num, runningThreads,
                   freeBlocks, modifiedBlocks, percent, old_percent,
                   wvars, mblk, mi, exit_code, hvars>>

\* line 244: a wake-up with no signal
main_L244_spurious_wakeup ==
    /\ mpc = "M244_wait"
    /\ mpc' = "M244_relock"
    /\ UNCHANGED <<cfgvars, disk, shvars, wvars, mblk, mi, exit_code, hvars>>

\* line 244: pthread_cond_wait returns holding the mutex again
main_L244_relock ==
    /\ mpc = "M244_relock"
    /\ MutexLock(Main)
    /\ mpc' = "M243"
    /\ UNCHANGED <<cfgvars, disk, quit, do_job, job_block_num, runningThreads,
                   freeBlocks, modifiedBlocks, percent, old_percent,
                   wvars, mblk, mi, exit_code, hvars>>

\* mutant of main_L245_unlock_next: the loop index advances by two
Mutant_L245_skips_a_block ==
    /\ mpc = "M245"
    /\ MutexUnlock(Main)
    /\ mblk' = mblk + 2
    /\ mpc' = "M236"
    /\ UNCHANGED <<cfgvars, disk, quit, do_job, job_block_num, runningThreads,
                   freeBlocks, modifiedBlocks, percent, old_percent,
                   wvars, mi, exit_code, hvars>>

\* lines 245 and 236: pthread_mutex_unlock(&mutex); blk++
main_L245_unlock_next ==
    /\ mpc = "M245"
    /\ MutexUnlock(Main)
    /\ mblk' = mblk + 1
    /\ mpc' = "M236"
    /\ UNCHANGED <<cfgvars, disk, quit, do_job, job_block_num, runningThreads,
                   freeBlocks, modifiedBlocks, percent, old_percent,
                   wvars, mi, exit_code, hvars>>

\* line 247: pthread_mutex_lock(&mutex)
main_L247_lock ==
    /\ mpc = "M247"
    /\ MutexLock(Main)
    /\ mpc' = "M248"
    /\ UNCHANGED <<cfgvars, disk, quit, do_job, job_block_num, runningThreads,
                   freeBlocks, modifiedBlocks, percent, old_percent,
                   wvars, mblk, mi, exit_code, hvars>>

\* line 248: quit = 1
main_L248_set_quit ==
    /\ mpc = "M248"
    /\ quit' = 1
    /\ mpc' = "M249"
    /\ UNCHANGED <<cfgvars, disk, mutex, do_job, job_block_num, runningThreads,
                   freeBlocks, modifiedBlocks, percent, old_percent,
                   wvars, mblk, mi, exit_code, hvars>>

\* line 249: pthread_cond_broadcast(&job_enqueued)
main_L249_broadcast_enqueued ==
    /\ mpc = "M249"
    /\ BroadcastEnqueued
    /\ mpc' = "M250"
    /\ UNCHANGED <<cfgvars, disk, shvars, blk, reg, mblk, mi, exit_code,
                   hvars>>

\* lines 250-251: pthread_mutex_unlock(&mutex); i = 0
main_L250_unlock ==
    /\ mpc = "M250"
    /\ MutexUnlock(Main)
    /\ mi' = 0
    /\ mpc' = "M251"
    /\ UNCHANGED <<cfgvars, disk, quit, do_job, job_block_num, runningThreads,
                   freeBlocks, modifiedBlocks, percent, old_percent,
                   wvars, mblk, exit_code, hvars>>

\* lines 251-255: pthread_join(threads[i], NULL) returns once worker i+1 has
\* returned; i++
main_L254_join ==
    /\ mpc = "M251"
    /\ mi < max_threads
    /\ pc[mi + 1] = "exited"
    /\ mi' = mi + 1
    /\ UNCHANGED <<cfgvars, disk, shvars, wvars, mpc, mblk, exit_code, hvars>>

\* lines 257-267: every worker joined; ext2fs_close succeeds; return 0
main_L267_return ==
    /\ mpc = "M251"
    /\ mi = max_threads
    /\ exit_code' = 0
    /\ mpc' = "done"
    /\ UNCHANGED <<cfgvars, disk, shvars, wvars, mblk, mi, hvars>>

\* lines 261-265: ext2fs_close fails: "error while closing filesystem", return 1
main_L264_close_error ==
    /\ mpc = "M251"
    /\ mi = max_threads
    /\ exit_code' = 1
    /\ mpc' = "done"
    /\ UNCHANGED <<cfgvars, disk, shvars, wvars, mblk, mi, hvars>>

\* ---- the system ----

\* one step of worker w, an I/O call returning either way
WorkerStep(w) ==
    \/ worker_L50_lock(w)
    \/ worker_L54_test_do_job(w)
    \/ worker_L55_cond_wait(w)
    \/ worker_L55_relock(w)
    \/ worker_L56_test_quit(w)
    \/ worker_L58_claim(w)
    \/ worker_L59_load(w)
    \/ worker_L59_store(w)
    \/ worker_L60_clear_do_job(w)
    \/ worker_L61_signal_accepted(w)
    \/ worker_L62_unlock(w)
    \/ worker_L65_test_bitmap(w)
    \/ worker_L69_lock(w)
    \/ worker_L70_load(w)
    \/ worker_L70_store(w)
    \/ worker_L71_percent(w)
    \/ worker_L73_unlock(w)
    \/ worker_L75_test_percent(w)
    \/ worker_L76_lock(w)
    \/ worker_L78_unlock(w)
    \/ worker_L79_old_percent(w)
    \/ worker_L82_read_compare(w)
    \/ worker_L82_read_error(w)
    \/ worker_L98_lock(w)
    \/ worker_L99_load(w)
    \/ worker_L99_store(w)
    \/ worker_L100_unlock(w)
    \/ worker_L103_write(w)
    \/ worker_L103_write_error(w)
    \/ worker_L110_lock(w)
    \/ worker_L111_load(w)
    \/ worker_L111_store(w)
    \/ worker_L112_signal_done(w)
    \/ worker_L116_load(w)
    \/ worker_L116_store(w)
    \/ worker_L117_unlock_return(w)

\* one step of the coordinator
MainStep ==
    \/ main_L236_for_test
    \/ main_L237_lock
    \/ main_L238_test_running
    \/ main_L239_cond_wait
    \/ main_L239_relock
    \/ main_L240_publish_block
    \/ main_L241_set_do_job
    \/ main_L242_signal_enqueued
    \/ main_L243_test_do_job
    \/ main_L244_cond_wait
    \/ main_L244_relock
    \/ main_L245_unlock_next
    \/ main_L247_lock
    \/ main_L248_set_quit
    \/ main_L249_broadcast_enqueued
    \/ main_L250_unlock
    \/ main_L254_join
    \/ main_L267_return
    \/ main_L264_close_error

\* wake-ups that no signal caused
SpuriousWakeup ==
    \/ \E w \in ThreadIds : worker_L55_spurious_wakeup(w)
    \/ main_L239_spurious_wakeup
    \/ main_L244_spurious_wakeup

Next ==
    \/ \E w \in ThreadIds : WorkerStep(w)
    \/ MainStep
    \/ SpuriousWakeup

Spec == Init /\ [][Next]_vars

\* the program run a second time, with the same command line, on the volume
\* a first run has swept without I/O failure: main builds the state of line
\* 236 again (lines 121-235) in a new process; the bitmap it reads is the
\* one the first run read, which no statement of the program changes
second_sweep ==
    /\ sweep = 1
    /\ ~dryrun
    /\ ~io_error
    /\ mpc \in {"M247", "M248", "M249", "M250", "M251", "done"}
    /\ do_job = 0
    /\ \A w \in Workers :
          pc[w] \in {"L50", "L54", "L55", "L55_wait", "L55_relock", "L112"}
    /\ sweep' = 2
    /\ mutex' = Free
    /\ quit' = 0
    /\ do_job' = 0
    /\ job_block_num' = 0
    /\ runningThreads' = 0
    /\ freeBlocks' = 0
    /\ modifiedBlocks' = 0
    /\ percent' = 0
    /\ old_percent' = -1
    /\ pc' = [w \in ThreadIds |-> IF w \in Workers THEN "L50" ELSE "none"]
    /\ blk' = [w \in ThreadIds |-> 0]
    /\ reg' = [w \in ThreadIds |-> 0]
    /\ mpc' = "M236"
    /\ mblk' = fs.s_first_data_block
    /\ mi' = 0
    /\ exit_code' = -1
    /\ accepted' = <<>>
    /\ queried' = {}
    /\ reads' = [b \in Range |-> 0]
    /\ writes' = [b \in Range |-> 0]
    /\ io_error' = FALSE
    /\ UNCHANGED <<max_threads, dryrun, verbose, fillval, fs, disk0, disk>>

NextTwoSweeps ==
    \/ Next
    \/ second_sweep

\* a verbose sweep that writes, followed by a second one
InitTwoSweeps ==
    /\ Init
    /\ ~dryrun
    /\ verbose

SpecTwoSweeps == InitTwoSweeps /\ [][NextTwoSweeps]_vars

\* one worker more than MaxThreads, on a volume of two free blocks that both
\* differ from fillval in their last byte
InitThreeWorkers ==
    /\ max_threads \in 1 .. (MaxThreads + 1)
    /\ dryrun = FALSE
    /\ verbose = TRUE
    /\ fillval = 0
    /\ fs = [s_first_data_block |-> 0,
             s_blocks_count |-> 2,
             s_free_blocks_count |-> 2,
             block_map |-> [b \in 0 .. 1 |-> FALSE]]
    /\ disk = [b \in 0 .. 1 |-> [i \in 1 .. BlockSize |->
                                    IF i = BlockSize THEN 255 ELSE 0]]
    /\ Start

SpecThreeWorkers == InitThreeWorkers /\ [][Next]_vars

\* one worker and one block more than the bounds: one block free and not
\* all fillval, the first or the last, the other two in use
InitThreeBlocks ==
    /\ max_threads \in 1 .. (MaxThreads + 1)
    /\ dryrun = FALSE
    /\ verbose = TRUE
    /\ fillval = 0
    /\ \E free \in {0, 2} :
          fs = [s_first_data_block |-> 0,
                s_blocks_count |-> 3,
                s_free_blocks_count |-> 1,
                block_map |-> [b \in 0 .. 2 |-> b # free]]
    /\ disk = [b \in 0 .. 2 |-> [i \in 1 .. BlockSize |-> 255]]
    /\ Start

SpecThreeBlocks == InitThreeBlocks /\ [][Next]_vars


\* fair scheduling: a thread that can take a step again and again does take
\* one (an I/O call may return either way; no wake-up without a signal is
\* ever owed)
Fairness ==
    /\ SF_vars(MainStep)
    /\ \A w \in ThreadIds : SF_vars(WorkerStep(w))

\* the sweeps checked under fair scheduling: verbose, writing, fillval 0
InitFair ==
    /\ Init
    /\ verbose
    /\ ~dryrun
    /\ fillval = 0

SpecFair == InitFair /\ [][Next]_vars /\ Fairness

\* ---- properties ----

\* worker w owns an accepted job: from the claim of line 58 until it has
\* stored the decrement of runningThreads (line 111 or 116)
JobPcs ==
    {"L59", "L59_store", "L60", "L61", "L62", "L65", "L69", "L70", "L70_store",
     "L71", "L73", "L75", "L76", "L78", "L79", "L82", "L98", "L99",
     "L99_store", "L100", "L103", "L110", "L111", "L111_store", "L116",
     "L116_store"}

\* w is past the free-check of its job and before label again
FreeBlockPcs ==
    {"L69", "L70", "L70_store", "L71", "L73", "L75", "L76", "L78", "L79",
     "L82", "L98", "L99", "L99_store", "L100", "L103"}

\* w has reached label again with its job
AgainPcs == {"L110", "L111", "L111_store"}

\* every block of the range has been handed out and processed: the
\* coordinator has left its loop, no job is pending, no worker owns a job
SweepDone ==
    /\ mpc \in {"M247", "M248", "M249", "M250", "M251", "done"}
    /\ do_job = 0
    /\ \A w \in Workers : pc[w] \notin JobPcs

\* every byte of block content c equals FillPattern
Clean(c) == \A i \in 1 .. BlockSize : c[i] = fillval

\* the free blocks that were not all fillval when the sweep started
DirtyFree == {b \in FreeInRange : ~Clean(disk0[b])}

\* C1: no block number is copied into a worker's blk twice (by two workers
\* or by one), and every block number copied is a block of the range.
C1_NoDoubleAssignment ==
    /\ \A i, j \in 1 .. Len(accepted) : accepted[i] = accepted[j] => i = j
    /\ \A i \in 1 .. Len(accepted) : accepted[i] \in Range

\* C3: 0 <= runningThreads <= max_threads in every state.
C3_ActiveCountBounded ==
    /\ 0 <= runningThreads
    /\ runningThreads <= max_threads

\* C2: without an I/O failure the sweep ends: the coordinator's join of all
\* workers completes.
C2_SweepEnds == <>(io_error \/ mpc = "done")

\* C4: no block outside [s_first_data_block, s_blocks_count) is ever queried,
\* and without an I/O failure every block of the range is eventually queried.
C4_Coverage ==
    /\ [](queried \subseteq Range)
    /\ <>(io_error \/ queried = Range)

C4_Witness ==
    /\ ~io_error
    /\ Cardinality(Range) = MaxBlocks
    /\ queried = Range
    /\ max_threads = 2

\* C5: a block the bitmap marks in use is never read and never written, and
\* the worker that claimed it goes from the free-check straight to label
\* again, so it touches neither freeBlocks nor modifiedBlocks for it.
C5_InUseUntouched ==
    \A b \in Range :
        InUse(b) =>
            /\ reads[b] = 0
            /\ writes[b] = 0
            /\ disk[b] = disk0[b]
            /\ \A w \in Workers : pc[w] \in FreeBlockPcs => blk[w] # b

C5_Witness ==
    \E w \in Workers :
        /\ pc[w] = "L110"
        /\ InUse(blk[w])
        /\ blk[w] \in queried
        /\ blk[w] = accepted[Len(accepted)]

\* C6: not in dry-run and with no I/O failure, a free block that was all
\* fillval is never written; a free block that was not is written once by the
\* worker that claimed it before that worker reaches label again, and from
\* its write on the block holds fillval in every byte.
C6_FillCorrectness ==
    (~dryrun /\ ~io_error) =>
        \A b \in FreeInRange :
            /\ Clean(disk0[b]) => writes[b] = 0
            /\ writes[b] > 0 => Clean(disk[b])
            /\ b \in DirtyFree =>
                  /\ (\E w \in Workers : pc[w] \in AgainPcs /\ blk[w] = b)
                        => writes[b] = 1
                  /\ SweepDone => writes[b] = 1

C6_Witness ==
    /\ ~dryrun
    /\ ~io_error
    /\ SweepDone
    /\ \E b1, b2 \in FreeInRange :
          /\ b1 \in DirtyFree
          /\ disk0[b1][1] = fillval
          /\ writes[b1] = 1
          /\ Clean(disk[b1])
          /\ Clean(disk0[b2])
          /\ reads[b2] = 1
          /\ writes[b2] = 0

\* C7: when every block has been processed and no I/O failed, freeBlocks is
\* the number of free blocks of the range and modifiedBlocks the number of
\* those that were not all fillval when the sweep started.
C7_FinalCounters ==
    (SweepDone /\ ~io_error) =>
        /\ freeBlocks = Cardinality(FreeInRange)
        /\ modifiedBlocks = Cardinality(DirtyFree)

C7_Witness ==
    /\ SweepDone
    /\ ~io_error
    /\ max_threads = 2
    /\ freeBlocks = 2
    /\ modifiedBlocks = 1

\* C8: a dry-run sweep writes no block, so every block keeps its content,
\* and when it has processed every block without I/O failure its counters
\* are those of the sweep that writes (C7): they depend on the volume only.
C8_DryRun ==
    dryrun =>
        /\ \A b \in Range : writes[b] = 0 /\ disk[b] = disk0[b]
        /\ (SweepDone /\ ~io_error) =>
              /\ freeBlocks = Cardinality(FreeInRange)
              /\ modifiedBlocks = Cardinality(DirtyFree)

C8_Witness ==
    /\ dryrun
    /\ SweepDone
    /\ ~io_error
    /\ modifiedBlocks = 2
    /\ \A b \in Range : disk[b] = disk0[b] /\ ~Clean(disk[b])

\* C9: a sweep in which a read or write failed does not end in success.
C9_FailureIsFatal == (mpc = "done" /\ io_error) => exit_code # 0

\* C10: after a read or write failure the coordinator publishes no further
\* block: do_job is not set to 1 again.
C10_NoNewWorkAfterFailure == [][(io_error /\ do_job = 0) => do_job' = 0]_vars

\* C11: freeBlocks and modifiedBlocks never decrease from one state to the
\* next, and modifiedBlocks <= freeBlocks in every state (both start at 0).
C11_MonotonicProgress ==
    [][/\ freeBlocks' >= freeBlocks
       /\ modifiedBlocks' >= modifiedBlocks
       /\ modifiedBlocks' <= freeBlocks']_vars

\* C12: in a second sweep of a volume that a first non-dry-run sweep with the
\* same fillval has processed without I/O failure, modifiedBlocks stays 0, no
\* block is written (every block keeps the content the first sweep left: the
\* free ones all fillval, the others what they held), and the bitmap is the
\* one of the first sweep.
C12_Idempotence ==
    /\ [](sweep = 2 =>
            /\ modifiedBlocks = 0
            /\ \A b \in Range :
                  /\ writes[b] = 0
                  /\ ~InUse(b) => Clean(disk[b])
                  /\ InUse(b) => disk[b] = disk0[b])
    /\ [][fs' = fs]_vars

C12_Witness ==
    /\ sweep = 2
    /\ SweepDone
    /\ ~io_error
    /\ max_threads = 2
    /\ fillval = 255
    /\ freeBlocks = 2
    /\ \E b \in DirtyFree : reads[b] = 1 /\ disk[b] # disk0[b]

\* C13: the slot holds at most one pending job (do_job is 0 or 1); whenever
\* the coordinator writes job_block_num (line 240), do_job is 0; and the
\* coordinator's loop index advances (line 236, blk++) only when do_job is 0
\* again and a worker has claimed the block it published.
C13_SingleSlotHandoff ==
    /\ [](do_job \in {0, 1})
    /\ [][job_block_num' # job_block_num => do_job = 0]_vars
    /\ [][(mpc = "M240" /\ mpc' = "M241") => do_job = 0]_vars
    /\ [][mblk' = mblk + 1 =>
            /\ do_job = 0
            /\ job_block_num = mblk
            /\ \E k \in 1 .. Len(accepted) : accepted[k] = mblk]_vars

\* the statements of worker_thread that read or write runningThreads, do_job,
\* job_block_num, quit, freeBlocks, modifiedBlocks or percent: lines 54, 56,
\* 58, 59, 60, 70, 71, 79, 99, 111, 116, and line 75 when verbose is set
\* (verbose && ... reads percent only then)
WorkerAccessPcs ==
    {"L54", "L56", "L58", "L59", "L59_store", "L60", "L70", "L70_store",
     "L71", "L79", "L99", "L99_store", "L111", "L111_store", "L116",
     "L116_store"} \cup (IF verbose THEN {"L75"} ELSE {})

\* the statements of main's sweep that do: lines 238, 240, 241, 243, 248
MainAccessPcs == {"M238", "M240", "M241", "M243", "M248"}

\* C14: a thread that is about to read or write runningThreads, do_job,
\* job_block_num, quit, freeBlocks, modifiedBlocks or percent holds the
\* mutex: the workers on every path (the progress display of lines 75-79 and
\* the exit path of lines 116-117 included), the coordinator in its loop and
\* when it prints the counters at line 258.
C14_SharedAccessLocked ==
    /\ \A w \in Workers : pc[w] \in WorkerAccessPcs => mutex = w
    /\ mpc \in MainAccessPcs => mutex = Main
    /\ (mpc = "M251" /\ mi = max_threads /\ verbose) => mutex = Main

\* C15: the block numbers, in the order in which workers accept them (line
\* 58), start at s_first_data_block and go up by exactly one each time.
C15_AscendingAcceptOrder ==
    \A k \in 1 .. Len(accepted) :
        accepted[k] = fs.s_first_data_block + (k - 1)

\* the coordinator has executed line 240 for the block after the one worker w
\* accepted, and w still owns its job
PublishedNextWhileOwned(w) ==
    /\ pc[w] \in JobPcs
    /\ \/ mblk > blk[w] + 1
       \/ /\ mblk = blk[w] + 1
          /\ mpc \in {"M241", "M242", "M243", "M244", "M244_wait",
                       "M244_relock", "M245"}

\* C16: the coordinator waits for acceptance, not completion: with one
\* worker it never publishes block b+1 while the worker that accepted block b
\* still owns it; with two workers it does (C16_Witness: both workers own
\* jobs, runningThreads = 2).
C16_AcceptedNotCompleted ==
    max_threads = 1 => \A w \in Workers : ~PublishedNextWhileOwned(w)

C16_Witness ==
    /\ max_threads = 2
    /\ ~io_error
    /\ runningThreads = 2
    /\ \E w1, w2 \in Workers :
          /\ w1 # w2
          /\ PublishedNextWhileOwned(w1)
          /\ pc[w1] \in FreeBlockPcs
          /\ pc[w2] \in JobPcs
          /\ blk[w2] = blk[w1] + 1

\* w is inside io_channel_read_blk (line 82) or io_channel_write_blk (line 103)
InBlockIO(w) == pc[w] \in {"L82", "L103"}

\* C17: a worker inside io_channel_read_blk or io_channel_write_blk does not
\* hold the mutex, so two workers can be inside block I/O at the same time
\* (C17_Witness).
C17_NoMutexDuringIO ==
    \A w \in Workers : InBlockIO(w) => mutex # w

C17_Witness ==
    /\ ~io_error
    /\ \E w1, w2 \in Workers :
          /\ w1 # w2
          /\ pc[w1] = "L103"
          /\ pc[w2] = "L82"
          /\ mutex \notin {w1, w2}

\* w has stored its increment of runningThreads (line 59) for the job it
\* accepted and has not yet stored the decrement (line 111 or 116)
Counted(w) == pc[w] \in (JobPcs \ {"L59", "L59_store"})

\* C18: whenever the mutex is free, runningThreads is the number of workers
\* that have accepted a job and not yet reported its completion.
C18_ActiveCountExact ==
    mutex = Free =>
        runningThreads = Cardinality({w \in Workers : Counted(w)})

\* the statements of worker_thread that release the mutex (pthread_cond_wait
\* of line 55 included) and those that acquire it
WorkerUnlockPcs == {"L55", "L62", "L73", "L78", "L100", "L117"}

WorkerLockPcs == {"L50", "L55_relock", "L69", "L76", "L98", "L110"}

\* C19: a worker that is about to unlock the mutex holds it, and a worker
\* that is about to lock the mutex does not hold it, on every path of
\* worker_thread.
C19_LockDiscipline ==
    \A w \in Workers :
        /\ pc[w] \in WorkerUnlockPcs => mutex = w
        /\ pc[w] \in WorkerLockPcs => mutex # w

\* the blocks whose content a write has replaced by FillPattern
Overwritten == {b \in Range : disk[b] # disk0[b] /\ Clean(disk[b])}

\* w has stored its increment of modifiedBlocks (line 99) and its write call
\* (line 103) has not returned yet
BeforeWrite(w) == pc[w] \in {"L100", "L103"}

\* C20: not in dry-run, whenever no worker is between its increment of
\* modifiedBlocks and its write call, modifiedBlocks is the number of blocks
\* that have been overwritten with FillPattern, write failures included.
C20_RewrittenCountExact ==
    (~dryrun /\ \A w \in Workers : ~BeforeWrite(w)) =>
        modifiedBlocks = Cardinality(Overwritten)

=============================================================================
